---- MODULE Spec2Model ----
(***************************************************************************)
(* Junate Towers: the tower catalog, its admin blueprint and public site.  *)
(*                                                                         *)
(* The specifications share the variables:                                 *)
(*   SpecStorage  configuration changes, init_app and upload_file calls;   *)
(*   SpecPdf      get_pdf_info applied to bounded streams;                 *)
(*   Spec         concurrent upload_document requests on the database;     *)
(*   SpecUpload   one administrator's uploads, every file and file name;   *)
(*   SpecStore    the bytes the storage backends hold after the uploads;   *)
(*   SpecAdmin    login, logout and the guarded routes of the blueprint;   *)
(*   SpecSite     the visit counter and the handlers of the public site;   *)
(*   SpecVisits   the visit counter over several sessions of a browser;    *)
(*   SpecName     SecurityManager.sanitize_filename;                       *)
(*   SpecBoot     config.py and create_app in a starting process;          *)
(*   SpecCsrf     csrf_protect and verify_csrf_token.                      *)
(***************************************************************************)

EXTENDS Integers, Sequences, FiniteSets, TLC

\* ------------------------------------------------------------------ bounds
\* longest stream content given to get_pdf_info
MaxLen == 3
\* rows the tower_documents table may hold
MaxDocs == 3

VARIABLES
    \* ---- CloudStorage and its environment
    config,       \* app.config: which keys hold a (truthy) value
    cloudinary,   \* the cloudinary module: "None" (import failed), or the
                  \* state of cloudinary.config().cloud_name: "unset" / "set"
    s3_client,    \* storage.s3_client is not None
    app,          \* storage.app is not None (init_app has run)
    call,         \* the last upload_file call: its inputs and what it did
    since_init,   \* backend tried first by the first call since init_app
    \* ---- get_pdf_info
    stream,       \* the file object handed to get_pdf_info
    info,         \* what get_pdf_info returned (or that it raised)
    \* ---- upload_document and the database
    docs,         \* committed rows of tower_documents, indexed by id
    clock,        \* datetime.utcnow(), as a counter that never goes back
    pc,           \* per request handler: where it is in upload_document
    req,          \* per request handler: its locals and its open transaction
    last,         \* the request that finished last, for the properties
    objects,      \* what the storage backends hold: per URL, the bytes
    \* ---- the admin blueprint
    session,      \* per browser: the keys its Flask session cookie holds
                  \* (flash messages apart): "admin_logged_in",
                  \* "_permanent" (session.permanent), "visitor_counted"
    admin_config, \* app.config['ADMIN_USERNAME'], ['ADMIN_PASSWORD']
    catalog,      \* committed rows of tower_categories, tower_variants,
                  \* tower_documents and sliders: their keys only
    resp,         \* the response to the admin request handled last
    \* ---- the public site
    visitor_stats, \* committed rows of the VisitorStat table
    vpc,           \* per browser: where its request is
    visit,         \* per browser: the locals of its request
    served,        \* the response to the public request handled last
    \* ---- SecurityManager.sanitize_filename
    raw_name,      \* the name handed to sanitize_filename
    sanitized,     \* what sanitize_filename returned
    \* ---- config.py and create_app
    environ,       \* os.environ after load_dotenv(), and the entry point
    boot,          \* how far the process has come in starting the app
    \* ---- visitors
    ended,         \* counted sessions that are over (their cookie is gone)
    \* ---- csrf_protect, verify_csrf_token
    csrf_token,    \* per browser: the value of session['csrf_token']
    csrf           \* the call made last and what it returned

storage_vars == <<config, cloudinary, s3_client, app, call, since_init>>
pdf_vars == <<stream, info>>
flow_vars == <<docs, clock, pc, req, last, objects>>
admin_vars == <<session, admin_config, catalog, resp>>
vars == <<config, cloudinary, s3_client, app, call, since_init,
          stream, info, docs, clock, pc, req, last, objects,
          session, admin_config, catalog, resp,
          visitor_stats, vpc, visit, served, raw_name, sanitized,
          environ, boot,
          ended,
          csrf_token, csrf>>
site_vars == <<visitor_stats, vpc, visit, served>>
name_vars == <<raw_name, sanitized>>
csrf_vars == <<csrf_token, csrf>>
visits_vars == <<ended>>
boot_vars == <<environ, boot>>

\* ===================================================== CloudStorage ======

ConfigKeys ==
    {"CLOUDINARY_URL", "CLOUDINARY_CLOUD_NAME", "CLOUDINARY_API_KEY",
     "CLOUDINARY_API_SECRET", "AWS_ACCESS_KEY_ID", "AWS_SECRET_ACCESS_KEY",
     "AWS_S3_ENDPOINT_URL"}

\* config.py: every key is os.environ.get(...), present or None
Configs == [ConfigKeys -> BOOLEAN]

\* what the external services do with one upload attempt
\*   cl   cloudinary.uploader.upload: returns a URL, or raises
\*   s3   s3_client.upload_fileobj: returns, raises NoCredentialsError,
\*        raises ClientError, or raises anything else (EndpointConnectionError
\*        and the like are BotoCoreError, not ClientError)
\* The local write (file.save) is taken to succeed.
Externals == [cl : {"ok", "fail"},
              s3 : {"ok", "NoCredentialsError", "ClientError", "other"}]

ObjectNames == {<<"T", 1, "_", "1.0", ".pdf">>}

NoUrl == [kind |-> "none", backend |-> "-", path |-> << >>]
Raised == [kind |-> "raise", backend |-> "-", path |-> << >>]
Url(b, p) == [kind |-> "url", backend |-> b, path |-> p]

\* init_app's effect on the cloudinary module's global configuration
init_cloudinary(cl, cfg) ==
    IF cl = "None" THEN cl
    ELSE IF cfg["CLOUDINARY_URL"] THEN "set"
    ELSE IF cfg["CLOUDINARY_CLOUD_NAME"] /\ cfg["CLOUDINARY_API_KEY"]
            /\ cfg["CLOUDINARY_API_SECRET"] THEN "set"
    ELSE cl

\* init_app's effect on self.s3_client: created when both keys are present,
\* otherwise left as it was
init_s3_client(s3, cfg) ==
    IF cfg["AWS_ACCESS_KEY_ID"] /\ cfg["AWS_SECRET_ACCESS_KEY"] THEN TRUE ELSE s3

\* _upload_local: writes uploads/<name>, returns the root-relative path
upload_local(object_name) == Url("local", <<"/uploads/", object_name>>)

\* _upload_cloudinary: every exception is caught and None returned
upload_cloudinary(cl, object_name, ext) ==
    IF cl = "None" THEN NoUrl
    ELSE IF ext.cl = "ok" THEN Url("cloudinary", <<"secure_url", object_name>>)
    ELSE NoUrl

\* the URL upload_file builds after a successful upload_fileobj
s3_url(cfg, object_name) ==
    IF cfg["AWS_S3_ENDPOINT_URL"]
    THEN Url("s3", <<"endpoint", "bucket", object_name>>)
    ELSE Url("s3", <<"amazonaws", "bucket", object_name>>)

\* ---- mutants of upload_file
\* a failed managed upload returns None at once
upload_file_no_fallthrough(cl, s3, cfg, object_name, ext) ==
    LET prefer == cl = "set"
        s3part ==
            IF ~s3 THEN [result |-> upload_local(object_name), tried |-> <<"local">>]
            ELSE IF ext.s3 = "ok"
            THEN [result |-> s3_url(cfg, object_name), tried |-> <<"s3">>]
            ELSE IF ext.s3 = "NoCredentialsError"
            THEN [result |-> upload_local(object_name), tried |-> <<"s3", "local">>]
            ELSE IF ext.s3 = "ClientError"
            THEN [result |-> NoUrl, tried |-> <<"s3">>]
            ELSE [result |-> Raised, tried |-> <<"s3">>]
    IN  IF prefer
        THEN [result |-> upload_cloudinary(cl, object_name, ext),
              tried |-> <<"cloudinary">>]
        ELSE s3part

\* object storage is asked before the managed service
upload_file_s3_first(cl, s3, cfg, object_name, ext) ==
    LET prefer == cl = "set"
        url == upload_cloudinary(cl, object_name, ext)
        rest ==
            IF prefer /\ url.kind = "url"
            THEN [result |-> url, tried |-> <<"cloudinary">>]
            ELSE IF prefer
            THEN [result |-> upload_local(object_name),
                  tried |-> <<"cloudinary", "local">>]
            ELSE [result |-> upload_local(object_name), tried |-> <<"local">>]
    IN  IF s3 /\ ext.s3 = "ok"
        THEN [result |-> s3_url(cfg, object_name), tried |-> <<"s3">>]
        ELSE IF s3 /\ ext.s3 = "NoCredentialsError"
        THEN [result |-> upload_local(object_name), tried |-> <<"s3", "local">>]
        ELSE IF s3 /\ ext.s3 = "ClientError"
        THEN [result |-> NoUrl, tried |-> <<"s3">>]
        ELSE IF s3 THEN [result |-> Raised, tried |-> <<"s3">>]
        ELSE rest

\* a ClientError falls back to the local disk like NoCredentialsError
upload_file_client_error_local(cl, s3, cfg, object_name, ext) ==
    LET prefer == cl = "set"
        url == upload_cloudinary(cl, object_name, ext)
        before == IF prefer THEN <<"cloudinary">> ELSE << >>
    IN  IF prefer /\ url.kind = "url"
        THEN [result |-> url, tried |-> <<"cloudinary">>]
        ELSE IF ~s3
        THEN [result |-> upload_local(object_name), tried |-> before \o <<"local">>]
        ELSE IF ext.s3 = "ok"
        THEN [result |-> s3_url(cfg, object_name), tried |-> before \o <<"s3">>]
        ELSE IF ext.s3 \in {"NoCredentialsError", "ClientError"}
        THEN [result |-> upload_local(object_name),
              tried |-> before \o <<"s3", "local">>]
        ELSE [result |-> Raised, tried |-> before \o <<"s3">>]

\* the backends are chosen from app.config as it is at the call
upload_file_per_call(cl, s3, cfg, object_name, ext) ==
    LET prefer == cl # "None"
                  /\ (cfg["CLOUDINARY_URL"]
                      \/ (cfg["CLOUDINARY_CLOUD_NAME"] /\ cfg["CLOUDINARY_API_KEY"]
                          /\ cfg["CLOUDINARY_API_SECRET"]))
        has_s3 == cfg["AWS_ACCESS_KEY_ID"] /\ cfg["AWS_SECRET_ACCESS_KEY"]
        url == upload_cloudinary(cl, object_name, ext)
        before == IF prefer THEN <<"cloudinary">> ELSE << >>
    IN  IF prefer /\ url.kind = "url"
        THEN [result |-> url, tried |-> <<"cloudinary">>]
        ELSE IF ~has_s3
        THEN [result |-> upload_local(object_name), tried |-> before \o <<"local">>]
        ELSE IF ext.s3 = "ok"
        THEN [result |-> s3_url(cfg, object_name), tried |-> before \o <<"s3">>]
        ELSE IF ext.s3 = "NoCredentialsError"
        THEN [result |-> upload_local(object_name),
              tried |-> before \o <<"s3", "local">>]
        ELSE IF ext.s3 = "ClientError"
        THEN [result |-> NoUrl, tried |-> before \o <<"s3">>]
        ELSE [result |-> Raised, tried |-> before \o <<"s3">>]

\* upload_file(file, object_name) on a storage object whose state is
\* (cl, s3), with app.config = cfg, when the services answer as ext says.
\* result: the URL returned, None, or that the call raised;
\* tried:  the backends attempted, in order.
upload_file(cl, s3, cfg, object_name, ext) ==
    LET prefer == cl = "set"       \* cloudinary and cloudinary.config().cloud_name
        url == upload_cloudinary(cl, object_name, ext)
        before == IF prefer THEN <<"cloudinary">> ELSE << >>
    IN  IF prefer /\ url.kind = "url"
        THEN [result |-> url, tried |-> <<"cloudinary">>]
        ELSE IF ~s3                \* if not self.s3_client
        THEN [result |-> upload_local(object_name), tried |-> before \o <<"local">>]
        ELSE IF ext.s3 = "ok"
        THEN [result |-> s3_url(cfg, object_name), tried |-> before \o <<"s3">>]
        ELSE IF ext.s3 = "NoCredentialsError"
        THEN [result |-> upload_local(object_name),
              tried |-> before \o <<"s3", "local">>]
        ELSE IF ext.s3 = "ClientError"
        THEN [result |-> NoUrl, tried |-> before \o <<"s3">>]
        ELSE [result |-> Raised, tried |-> before \o <<"s3">>]

\* the backend app.config, read now, would put first
ChoiceByConfig(cl, cfg) ==
    IF cl # "None"
       /\ (cfg["CLOUDINARY_URL"]
           \/ (cfg["CLOUDINARY_CLOUD_NAME"] /\ cfg["CLOUDINARY_API_KEY"]
               /\ cfg["CLOUDINARY_API_SECRET"]))
    THEN "cloudinary"
    ELSE IF cfg["AWS_ACCESS_KEY_ID"] /\ cfg["AWS_SECRET_ACCESS_KEY"] THEN "s3"
    ELSE "local"

NoCall ==
    [made |-> FALSE, by_config |-> "-", ext |-> [cl |-> "ok", s3 |-> "ok"],
     name |-> "-", result |-> NoUrl, tried |-> << >>]

\* the environment sets or removes one configuration value
ConfigChange ==
    /\ \E k \in ConfigKeys : config' = [config EXCEPT ![k] = ~@]
    /\ UNCHANGED <<cloudinary, s3_client, app, call, since_init>>
    /\ UNCHANGED <<pdf_vars, flow_vars, admin_vars, site_vars, name_vars, boot_vars, visits_vars, csrf_vars>>

\* CloudStorage.init_app(app)
init_app ==
    /\ app' = TRUE
    /\ cloudinary' = init_cloudinary(cloudinary, config)
    /\ s3_client' = init_s3_client(s3_client, config)
    /\ call' = NoCall
    /\ since_init' = "-"
    /\ UNCHANGED config
    /\ UNCHANGED <<pdf_vars, flow_vars, admin_vars, site_vars, name_vars, boot_vars, visits_vars, csrf_vars>>

\* one call storage.upload_file(file, object_name) from a request
upload_file_call ==
    /\ app
    /\ \E name \in ObjectNames, ext \in Externals :
          LET r == upload_file(cloudinary, s3_client, config, name, ext)
          IN  /\ call' = [made |-> TRUE,
                          by_config |-> ChoiceByConfig(cloudinary, config),
                          ext |-> ext, name |-> name,
                          result |-> r.result, tried |-> r.tried]
              /\ since_init' = IF since_init = "-" THEN r.tried[1] ELSE since_init
    /\ UNCHANGED <<config, cloudinary, s3_client, app>>
    /\ UNCHANGED <<pdf_vars, flow_vars, admin_vars, site_vars, name_vars, boot_vars, visits_vars, csrf_vars>>

\* ===================================================== get_pdf_info ======

\* A stream's content, byte by byte as far as PdfReader tells bytes apart:
\* "H" a PDF header, "P" one page object, "X" anything else.
Bytes == {"H", "P", "X"}

Contents == UNION {[1..n -> Bytes] : n \in 0..MaxLen}

\* the Content-Length a multipart part declares (file.content_length): the
\* client's header value, an integer of either sign, 0 when there is none
DeclaredLengths == -1..MaxLen

\* file objects: the buffered content, the read position, whether the object
\* has getvalue (a BytesIO has, a spooled temporary file has not), the
\* declared length, and whether the stream is closed (seek and read raise)
Streams ==
    {f \in [data : Contents, pos : 0..MaxLen, has_getvalue : BOOLEAN,
            content_length : DeclaredLengths, closed : BOOLEAN] :
        f.pos <= Len(f.data)}

\* PdfReader(...) accepts the bytes: a header followed by page objects only
IsPdf(bytes) ==
    /\ Len(bytes) >= 1
    /\ bytes[1] = "H"
    /\ \A i \in 2..Len(bytes) : bytes[i] = "P"

\* len(pdf_reader.pages)
PageCount(bytes) == Cardinality({i \in 1..Len(bytes) : bytes[i] = "P"})

\* file.read(): the bytes from the read position to the end
read(f) == SubSeq(f.data, f.pos + 1, Len(f.data))

\* file.seek(0)
seek0(f) == [f EXCEPT !.pos = 0]

ZeroInfo == [page_count |-> 0, file_size |-> 0]

\* get_pdf_info(file): the dict returned, and the file as it is left.
\* Every exception inside the try block ends in the except branch.
get_pdf_info(f) ==
    IF f.closed
    THEN [info |-> ZeroInfo, raised |-> FALSE, file |-> f]
    ELSE LET g == seek0(f)
             bytes == read(g)
             after == [g EXCEPT !.pos = Len(g.data)]
         IN  IF IsPdf(bytes)
             THEN [info |-> [page_count |-> PageCount(bytes),
                             file_size |-> IF f.has_getvalue
                                           THEN Len(f.data)
                                           ELSE f.content_length],
                   raised |-> FALSE, file |-> after]
             ELSE [info |-> ZeroInfo, raised |-> FALSE, file |-> after]

NoStream ==
    [data |-> << >>, pos |-> 0, has_getvalue |-> TRUE, content_length |-> 0,
     closed |-> FALSE]

NoInfo == [called |-> FALSE, input |-> NoStream, info |-> ZeroInfo, raised |-> FALSE]

\* one call storage.get_pdf_info(file)
get_pdf_info_call ==
    /\ ~info.called
    /\ LET r == get_pdf_info(stream)
       IN  /\ info' = [called |-> TRUE, input |-> stream, info |-> r.info,
                       raised |-> r.raised]
           /\ stream' = r.file
    /\ UNCHANGED <<storage_vars, flow_vars, admin_vars, site_vars, name_vars, boot_vars, visits_vars, csrf_vars>>

\* ============================================ upload_document, database ==

\* the request handlers that may run at the same time
Reqs == {"r1", "r2"}

\* ids of the rows of tower_variants
Variants == {1, 2}

\* form.version.data
Versions == {"1.0"}

\* secure_filename(f"{variant.tower_code}_{form.version.data}.pdf"): the
\* tower code is unique per variant
object_name(v, version) == <<"T", v, "_", version, ".pdf">>

\* A file name, piece by piece: "." is the dot character, every other piece
\* a run of characters without a dot.
\* the name the concurrent requests carry
FlowNames == {<<"spec", ".", "pdf">>}

ALLOWED_EXTENSIONS == {<<"pdf">>}

\* str.lower() on one piece
lower(piece) ==
    CASE piece = "PDF" -> "pdf"
      [] piece = "Pdf" -> "pdf"
      [] piece = "TXT" -> "txt"
      [] OTHER -> piece

\* filename.rsplit('.', 1)[1]: the pieces after the last dot
rsplit_ext(filename) ==
    LET dot == CHOOSE i \in 1..Len(filename) :
                   /\ filename[i] = "."
                   /\ \A j \in (i + 1)..Len(filename) : filename[j] # "."
    IN  SubSeq(filename, dot + 1, Len(filename))

\* ---- mutant of allowed_file
\* any name with a dot is accepted
allowed_file_any_extension(filename) ==
    \E i \in 1..Len(filename) : filename[i] = "."

\* allowed_file(filename)
allowed_file(filename) ==
    /\ \E i \in 1..Len(filename) : filename[i] = "."
    /\ LET ext == rsplit_ext(filename)
       IN  [i \in 1..Len(ext) |-> lower(ext[i])] \in ALLOWED_EXTENSIONS

\* the upload the concurrent requests carry: a one-page PDF held in memory
FlowFiles ==
    {[data |-> <<"H", "P">>, pos |-> 0, has_getvalue |-> TRUE,
      content_length |-> 0, closed |-> FALSE]}

\* the names a single administrator submits: with and without extension,
\* the extension in any case, a dot that is not the last one, no name
UploadNames ==
    {<<"spec", ".", "PDF">>, <<"spec", ".", "txt">>,
     <<"spec", ".", "pdf", ".", "txt">>, <<"pdf">>, << >>}

\* the files a single administrator submits: a one-page PDF buffered in
\* memory, and a file PdfReader rejects, spooled to disk
UploadFiles ==
    {[data |-> <<"H", "P">>, pos |-> 0, has_getvalue |-> TRUE,
      content_length |-> 0, closed |-> FALSE],
     [data |-> <<"H", "X">>, pos |-> 0, has_getvalue |-> FALSE,
      content_length |-> 2, closed |-> FALSE]}

\* what the services answer to them
UploadExternals ==
    {[cl |-> "fail", s3 |-> "ok"],
     [cl |-> "fail", s3 |-> "ClientError"]}

\* what the services answer to the concurrent requests: the managed service
\* stores the file; or it fails and object storage answers with a
\* ClientError; or it fails and object storage raises another error
FlowExternals ==
    {[cl |-> "ok", s3 |-> "ok"],
     [cl |-> "fail", s3 |-> "ClientError"],
     [cl |-> "fail", s3 |-> "other"]}

\* form.version.data of the uploads whose stored bytes are looked at
StoreVersions == {"1.0", "2.0"}

\* their files: two PDFs of different content, buffered in memory
StoreFiles ==
    {[data |-> <<"H", "P">>, pos |-> 0, has_getvalue |-> TRUE,
      content_length |-> 0, closed |-> FALSE],
     [data |-> <<"H", "P", "P">>, pos |-> 0, has_getvalue |-> TRUE,
      content_length |-> 0, closed |-> FALSE]}

\* what the services answer to them: the first backend stores the file; the
\* managed service fails, after reading the file or before, and object
\* storage stores it; the managed service fails, object storage has no
\* credentials and the local disk stores it
StoreExternals ==
    {[cl |-> "ok", s3 |-> "ok"],
     [cl |-> "fail", s3 |-> "ok"],
     [cl |-> "refused", s3 |-> "ok"],
     [cl |-> "fail", s3 |-> "NoCredentialsError"]}

Ids(ds) == 1..Len(ds)

DocsOf(ds, v) == {d \in Ids(ds) : ds[d].variant_id = v}

\* TowerDocument.query.filter_by(variant_id=v, is_active=True)
ActiveIds(ds, v) == {d \in DocsOf(ds, v) : ds[d].is_active}

\* variant_detail: the active documents ordered by upload_timestamp
\* descending, .first(): the rows it may return (none: the page shows no
\* document)
variant_detail(ds, v) ==
    {d \in ActiveIds(ds, v) :
        \A e \in ActiveIds(ds, v) :
            ds[e].upload_timestamp <= ds[d].upload_timestamp}

\* ---- mutants of deactivate
\* the UPDATE is left out
deactivate_none(ds, v, seen) == ds

\* the UPDATE also reaches rows committed after the statement ran
deactivate_all(ds, v, seen) ==
    [d \in Ids(ds) |->
        IF ds[d].variant_id = v THEN [ds[d] EXCEPT !.is_active = FALSE] ELSE ds[d]]

\* the UPDATE has no filter on the variant
deactivate_every_variant(ds, v, seen) ==
    [d \in Ids(ds) |->
        IF d <= seen THEN [ds[d] EXCEPT !.is_active = FALSE] ELSE ds[d]]

\* TowerDocument.query.filter_by(variant_id=v).update({'is_active': False}),
\* run when the table held the rows 1..seen: the rows it changes
deactivate(ds, v, seen) ==
    [d \in Ids(ds) |->
        IF ds[d].variant_id = v /\ d <= seen
        THEN [ds[d] EXCEPT !.is_active = FALSE]
        ELSE ds[d]]

\* ---- mutant of visible_after_update
\* the UPDATE is committed as soon as it has run
update_autocommitted(ds, v, seen) == deactivate(ds, v, seen)

\* The committed table after the handler's UPDATE: the statement runs in the
\* session's open transaction and there is no commit before line 265, so
\* other sessions still read the rows as they were.
visible_after_update(ds, v, seen) == ds

\* TowerDocument(variant_id=..., pdf_url=..., ..., is_active=True);
\* upload_timestamp defaults to datetime.utcnow() when the row is inserted
new_document(q, t) ==
    [variant_id |-> q.variant, pdf_url |-> q.url,
     page_count |-> q.info.page_count, file_size |-> q.info.file_size,
     version |-> q.version, upload_timestamp |-> t, is_active |-> TRUE]

\* ---- mutants of persist
\* the deactivation is committed although the upload failed
persist_commit_on_failure(ds, q, t) ==
    IF q.url.kind = "url"
    THEN Append(deactivate(ds, q.variant, q.seen), new_document(q, t))
    ELSE deactivate(ds, q.variant, q.seen)

\* the row is inserted whatever upload_file returned
persist_always_insert(ds, q, t) ==
    IF q.url.kind = "url"
    THEN Append(deactivate(ds, q.variant, q.seen), new_document(q, t))
    ELSE Append(ds, new_document(q, t))

\* no row is inserted for a file whose metadata could not be read
persist_skip_without_metadata(ds, q, t) ==
    IF q.url.kind = "url" /\ q.info # ZeroInfo
    THEN Append(deactivate(ds, q.variant, q.seen), new_document(q, t))
    ELSE ds

\* The committed table when the request ends. if pdf_url: the row is added
\* and db.session.commit() commits it together with the UPDATE. else: the
\* handler returns without a commit, and the session is removed at the end
\* of the request, which rolls the UPDATE back.
persist(ds, q, t) ==
    IF q.url.kind = "url"
    THEN Append(deactivate(ds, q.variant, q.seen), new_document(q, t))
    ELSE ds

\* the stream as an attempt of the managed service that failed leaves it:
\* _upload_cloudinary has put it at offset 0 (lines 108-111); the uploader
\* was refused before it read the file ("refused": the request could not
\* be signed), or failed after it had read the file to its end
after_cloudinary(f, ext) ==
    IF ext.cl = "refused" THEN seek0(f) ELSE [f EXCEPT !.pos = Len(f.data)]

\* The bytes the backend that returned the URL has written, f being the
\* file as get_pdf_info left it. _upload_cloudinary seeks to offset 0
\* first; upload_fileobj (line 63) and file.save (line 94) copy from where
\* the stream stands.
written(f, up, ext) ==
    IF up.result.backend = "cloudinary" THEN read(seek0(f))
    ELSE IF up.tried[1] = "cloudinary" THEN read(after_cloudinary(f, ext))
    ELSE read(f)

\* the backend keeps one object per name: overwrite=True (line 119), the
\* key of upload_fileobj, the path of file.save
put(objs, url, bytes) ==
    {o \in objs : o.url # url} \cup {[url |-> url, data |-> bytes]}

\* the bytes a GET of the URL is answered with
get(objs, url) == (CHOOSE o \in objs : o.url = url).data

NoReq ==
    [variant |-> 0, version |-> "-", name |-> << >>, file |-> NoStream,
     seen |-> 0, alone |-> TRUE, at_begin |-> {}, info |-> ZeroInfo,
     url |-> NoUrl]

NoLast ==
    [outcome |-> "-", variant |-> 0, name |-> << >>, file |-> NoStream,
     info |-> ZeroInfo, url |-> NoUrl, doc |-> 0, alone |-> TRUE, seen |-> 0,
     at_begin |-> {}, before |-> {}]

InProgress == {r \in Reqs : pc[r] # "idle"}

Finished(r, q, outcome, ds) ==
    [outcome |-> outcome, variant |-> q.variant, name |-> q.name,
     file |-> q.file, info |-> q.info, url |-> q.url,
     doc |-> IF outcome = "ok" THEN Len(ds) ELSE 0,
     alone |-> q.alone, seen |-> q.seen, at_begin |-> q.at_begin,
     before |-> ActiveIds(docs, q.variant)]

\* upload_document, POST with a valid form and a file whose name passes
\* allowed_file (line 244), up to and including the UPDATE of line 246
upload_begin(r, names, versions) ==
    /\ pc[r] = "idle"
    /\ Len(docs) + Cardinality(InProgress) < MaxDocs
    /\ \E v \in Variants, version \in versions, name \in names :
         LET others == {o \in InProgress : req[o].variant = v}
         IN  /\ allowed_file(name)
             /\ req' = [o \in Reqs |->
                          IF o = r
                          THEN [NoReq EXCEPT !.variant = v,
                                             !.version = version,
                                             !.name = name,
                                             !.seen = Len(docs),
                                             !.alone = (others = {}),
                                             !.at_begin = ActiveIds(docs, v)]
                          ELSE IF o \in others
                          THEN [req[o] EXCEPT !.alone = FALSE]
                          ELSE req[o]]
             /\ docs' = visible_after_update(docs, v, Len(docs))
    /\ pc' = [pc EXCEPT ![r] = "deactivated"]
    /\ UNCHANGED <<clock, last, objects>>
    /\ UNCHANGED <<storage_vars, pdf_vars, admin_vars, site_vars, name_vars, boot_vars, visits_vars, csrf_vars>>

\* lines 249-253: get_pdf_info, then upload_file. An exception out of
\* upload_file ends the request with the 500 handler: the session is rolled
\* back and nothing of the request is committed.
upload_store(r, files, exts) ==
    /\ pc[r] = "deactivated"
    /\ \E f \in files, ext \in exts :
         LET pi == get_pdf_info(f)
             up == upload_file(cloudinary, s3_client, config,
                               object_name(req[r].variant, req[r].version), ext)
         IN  IF up.result.kind = "raise"
             THEN /\ pc' = [pc EXCEPT ![r] = "idle"]
                  /\ UNCHANGED objects
                  /\ req' = [req EXCEPT ![r] = NoReq]
                  /\ last' = Finished(r, [req[r] EXCEPT !.file = f,
                                                       !.info = pi.info,
                                                       !.url = up.result],
                                     "raise", docs)
             ELSE /\ pc' = [pc EXCEPT ![r] = "uploaded"]
                  /\ req' = [req EXCEPT ![r].file = f, ![r].info = pi.info,
                                        ![r].url = up.result]
                  /\ UNCHANGED last
                  /\ IF up.result.kind = "url"
                     THEN objects' = put(objects, up.result,
                                         written(pi.file, up, ext))
                     ELSE UNCHANGED objects
    /\ UNCHANGED <<docs, clock>>
    /\ UNCHANGED <<storage_vars, pdf_vars, admin_vars, site_vars, name_vars, boot_vars, visits_vars, csrf_vars>>

\* upload_document, POST with a valid form and a file whose name fails
\* allowed_file: flash('Invalid file type...') (lines 270-271) and the form
\* is rendered again; the handler has run no statement on the database and
\* has not called storage
upload_reject(r, names) ==
    /\ pc[r] = "idle"
    /\ \E v \in Variants, version \in Versions, name \in names :
         /\ ~allowed_file(name)
         /\ last' = Finished(r, [NoReq EXCEPT !.variant = v,
                                              !.version = version,
                                              !.name = name,
                                              !.seen = Len(docs),
                                              !.at_begin = ActiveIds(docs, v)],
                             "invalid", docs)
    /\ UNCHANGED <<docs, clock, pc, req, objects>>
    /\ UNCHANGED <<storage_vars, pdf_vars, admin_vars, site_vars, name_vars, boot_vars, visits_vars, csrf_vars>>

\* lines 255-273: insert and commit, or flash the error; then the request
\* ends
upload_finish(r) ==
    /\ pc[r] = "uploaded"
    /\ \E t \in {clock, clock + 1} :
         /\ req[r].url.kind # "url" => t = clock
         /\ docs' = persist(docs, req[r], t)
         /\ clock' = t
    /\ last' = Finished(r, req[r],
                        IF req[r].url.kind = "url" THEN "ok" ELSE "fail", docs')
    /\ pc' = [pc EXCEPT ![r] = "idle"]
    /\ req' = [req EXCEPT ![r] = NoReq]
    /\ UNCHANGED objects
    /\ UNCHANGED <<storage_vars, pdf_vars, admin_vars, site_vars, name_vars, boot_vars, visits_vars, csrf_vars>>

\* ======================================================= admin blueprint ==

\* the browsers, each with its own session cookie
Browsers == {"b1", "b2"}

\* config.py: ADMIN_USERNAME and ADMIN_PASSWORD are os.environ.get(...),
\* a string or None
AdminConfigs ==
    [ADMIN_USERNAME : {"None", "admin"}, ADMIN_PASSWORD : {"None", "secret"}]

\* form.username.data, form.password.data: strings, "" when left empty
Usernames == {"", "admin", "guest"}
Passwords == {"secret", "guess"}

\* A URL, piece by piece: the first piece is what it starts with.
DashboardUrl == <<"/", "admin/">>
LoginUrl == <<"/", "admin/login">>

\* the values of the next parameter: absent, a path of the site (what
\* admin_required passes), and URLs of another site, absolute or
\* scheme-relative
NextUrls ==
    {<< >>,
     <<"/", "admin/categories">>,
     <<"https://", "evil.example", "/">>,
     <<"//", "evil.example", "/">>}

\* next_url.startswith(('http://', 'https://'))
startswith_http(url) == Len(url) >= 1 /\ url[1] \in {"http://", "https://"}

\* login, lines 78-80: where a successful login redirects to
login_redirect(next_url) ==
    IF next_url # << >> /\ ~startswith_http(next_url)
    THEN next_url
    ELSE DashboardUrl

\* ---- mutant of admin_required
\* the decorator lets every request through
admin_required_open(s) == TRUE

\* admin_required: 'admin_logged_in' in session
admin_required(s) == "admin_logged_in" \in s

\* login, lines 71-72
credentials_match(cfg, username, password) ==
    /\ username = cfg.ADMIN_USERNAME
    /\ password = cfg.ADMIN_PASSWORD

NoResp ==
    [browser |-> "-", route |-> "-", ran |-> FALSE, kind |-> "-",
     location |-> << >>, username |-> "-", password |-> "-",
     removed |-> [variants |-> 0, documents |-> 0]]

Response(b, route, ran, kind, location) ==
    [NoResp EXCEPT !.browser = b, !.route = route, !.ran = ran,
                   !.kind = kind, !.location = location]

\* POST /admin/login
login(b) ==
    /\ \E username \in Usernames, password \in Passwords, next_url \in NextUrls :
         LET validated == username # "" /\ password # ""
             answer(kind, location) ==
                 [Response(b, "login", TRUE, kind, location)
                     EXCEPT !.username = username, !.password = password]
         IN  IF validated /\ credentials_match(admin_config, username, password)
             THEN /\ session' = [session EXCEPT ![b] =
                                     @ \cup {"admin_logged_in", "_permanent"}]
                  /\ resp' = answer("redirect", login_redirect(next_url))
             ELSE /\ UNCHANGED session
                  /\ resp' = answer("page", << >>)
    /\ UNCHANGED <<admin_config, catalog>>
    /\ UNCHANGED <<storage_vars, pdf_vars, flow_vars, site_vars, name_vars, boot_vars, visits_vars, csrf_vars>>

\* GET /admin/logout
logout(b) ==
    /\ session' = [session EXCEPT ![b] = @ \ {"admin_logged_in"}]
    /\ resp' = Response(b, "logout", TRUE, "redirect", LoginUrl)
    /\ UNCHANGED <<admin_config, catalog>>
    /\ UNCHANGED <<storage_vars, pdf_vars, flow_vars, site_vars, name_vars, boot_vars, visits_vars, csrf_vars>>

\* ---- the catalog tables

CategoryIds == {1, 2}
DocumentIds == {1, 2}
SliderIds == {1}

\* rows by their keys: tower_categories and sliders by id, tower_variants
\* by id and category_id, tower_documents by id and variant_id
EmptyCatalog ==
    [categories |-> {}, variants |-> {}, documents |-> {}, sliders |-> {}]

VariantIds(cat) == {v.id : v \in cat.variants}

\* TowerCategory.variants, TowerVariant.documents
variants_of(cat, c) == {v \in cat.variants : v.category_id = c}
documents_of(cat, v) == {d \in cat.documents : d.variant_id = v}

\* db.session.delete(variant): cascade='all, delete-orphan' on
\* TowerVariant.documents deletes the documents with it
delete_variant(cat, v) ==
    [cat EXCEPT !.variants = {x \in @ : x.id # v},
                !.documents = @ \ documents_of(cat, v)]

\* ---- mutant of delete_category
\* the variants are deleted, their documents are not
delete_category_one_level(cat, c) ==
    [cat EXCEPT !.categories = @ \ {c},
                !.variants = @ \ variants_of(cat, c)]

\* db.session.delete(category): the cascade on TowerCategory.variants
\* deletes each variant, and with each variant its documents
delete_category(cat, c) ==
    [cat EXCEPT !.categories = @ \ {c},
                !.variants = @ \ variants_of(cat, c),
                !.documents = @ \ UNION {documents_of(cat, v.id) :
                                            v \in variants_of(cat, c)}]

\* the requests to the guarded routes: the route, the id in the URL (for
\* the new_ routes the id the database gives the new row), the category_id
\* or variant_id submitted, and for an upload whether upload_file returned
\* a URL
AdminOps(cat) ==
    [route : {"dashboard"}, id : {0}, to : {0}, uploaded : {FALSE}]
    \cup [route : {"new_category"}, id : CategoryIds \ cat.categories,
          to : {0}, uploaded : {FALSE}]
    \cup [route : {"delete_category"}, id : CategoryIds, to : {0},
          uploaded : {FALSE}]
    \cup [route : {"new_variant"}, id : Variants \ VariantIds(cat),
          to : CategoryIds, uploaded : {FALSE}]
    \cup [route : {"edit_variant"}, id : Variants, to : CategoryIds,
          uploaded : {FALSE}]
    \cup [route : {"delete_variant"}, id : Variants, to : {0},
          uploaded : {FALSE}]
    \cup [route : {"upload_document"},
          id : DocumentIds \ {d.id : d \in cat.documents}, to : Variants,
          uploaded : BOOLEAN]
    \cup [route : {"new_slider"}, id : SliderIds \ cat.sliders, to : {0},
          uploaded : {FALSE}]
    \cup [route : {"delete_slider"}, id : SliderIds, to : {0},
          uploaded : {FALSE}]

\* what the handler of a guarded route does to the tables, and how it
\* answers: "404" from get_or_404, "page" when the form does not validate
\* (a category_id that is not among the choices) or the upload fails.
\* edit_category and edit_slider change no key and are left out.
handle(op, cat) ==
    LET done(c) == [catalog |-> c, kind |-> "redirect"]
        none(kind) == [catalog |-> cat, kind |-> kind]
    IN  CASE op.route = "dashboard" -> none("page")
          [] op.route = "new_category" ->
                done([cat EXCEPT !.categories = @ \cup {op.id}])
          [] op.route = "delete_category" ->
                IF op.id \in cat.categories
                THEN done(delete_category(cat, op.id))
                ELSE none("404")
          [] op.route = "new_variant" ->
                IF op.to \in cat.categories
                THEN done([cat EXCEPT !.variants =
                              @ \cup {[id |-> op.id, category_id |-> op.to]}])
                ELSE none("page")
          [] op.route = "edit_variant" ->
                IF op.id \notin VariantIds(cat) THEN none("404")
                ELSE IF op.to \in cat.categories
                THEN done([cat EXCEPT !.variants =
                              {x \in @ : x.id # op.id}
                                  \cup {[id |-> op.id, category_id |-> op.to]}])
                ELSE none("page")
          [] op.route = "delete_variant" ->
                IF op.id \in VariantIds(cat)
                THEN done(delete_variant(cat, op.id))
                ELSE none("404")
          [] op.route = "upload_document" ->
                IF op.to \notin VariantIds(cat) THEN none("404")
                ELSE IF op.uploaded
                THEN done([cat EXCEPT !.documents =
                              @ \cup {[id |-> op.id, variant_id |-> op.to]}])
                ELSE none("page")
          [] op.route = "new_slider" ->
                done([cat EXCEPT !.sliders = @ \cup {op.id}])
          [] op.route = "delete_slider" ->
                IF op.id \in cat.sliders
                THEN done([cat EXCEPT !.sliders = @ \ {op.id}])
                ELSE none("404")

\* a request to a guarded route: the decorator, then the handler
admin_request(b) ==
    /\ \E op \in AdminOps(catalog) :
         IF admin_required(session[b])
         THEN LET h == handle(op, catalog)
                  gone(before, after) ==
                      Cardinality({x.id : x \in before} \ {x.id : x \in after})
              IN  /\ catalog' = h.catalog
                  /\ resp' = [Response(b, op.route, TRUE, h.kind, << >>)
                                EXCEPT !.removed =
                                    [variants |-> gone(catalog.variants,
                                                       h.catalog.variants),
                                     documents |-> gone(catalog.documents,
                                                        h.catalog.documents)]]
         ELSE /\ UNCHANGED catalog
              /\ resp' = Response(b, op.route, FALSE, "redirect",
                                  LoginUrl \o <<"?next=", op.route>>)
    /\ UNCHANGED <<session, admin_config>>
    /\ UNCHANGED <<storage_vars, pdf_vars, flow_vars, site_vars, name_vars, boot_vars, visits_vars, csrf_vars>>

\* ========================================================== public site ==

\* request.endpoint, piece by piece as startswith sees it; << >> is None
\* (no route matched)
Endpoints ==
    {<<"main.", "index">>, <<"main.", "health">>, <<"admin.", "login">>,
     <<"static">>, << >>}

\* _count_visits_once_per_session, line 91: admin routes and static files
\* are skipped
skipped(endpoint) ==
    endpoint # << >> /\ endpoint[1] \in {"admin.", "static"}

\* ---- mutant of should_count
\* the session is not looked at
should_count_every_request(s, endpoint) == ~skipped(endpoint)

\* lines 91-95: whether the request enters the counting block
should_count(s, endpoint) ==
    ~skipped(endpoint) /\ "visitor_counted" \notin s

\* VisitorStat.query.first(): no ORDER BY, any row of the table; 0 when the
\* table is empty
first(table) == IF table = << >> THEN {0} ELSE 1..Len(table)

\* The VisitorStat model (app/models.py declares it; the class is not among
\* the sources): a row holds the running total (and the last-visit time,
\* left out); an INSERT adds a row, no constraint limits the table to one.
VisitorStat(total_count) == [total_count |-> total_count]

insert_visitor_stat(table, row) == Append(table, row)

\* lines 98-103, on a commit that succeeds: a missing row is created with
\* total_count 0 and incremented; an existing row is written back with the
\* value read plus one
count_commit(table, v) ==
    IF v.stat = 0
    THEN insert_visitor_stat(table, VisitorStat(0 + 1))
    ELSE [table EXCEPT ![v.stat].total_count = v.total + 1]

\* ---- mutant of after_count_failure
\* the exception of the counting block is not caught
after_count_failure_raise == "error"

\* lines 105-108: except Exception: db.session.rollback(); pass
after_count_failure == "handler"

\* ---- mutant of health
\* an unconfigured or unreadable storage configuration also gives 503
health_needs_storage(q_ok, cl, cfg_raises) ==
    [db |-> IF q_ok THEN "ok" ELSE "error",
     cloudinary_configured |-> ~cfg_raises /\ cl = "set",
     status |-> IF q_ok /\ ~cfg_raises /\ cl = "set" THEN 200 ELSE 503]

\* health: q_ok, whether SELECT 1 succeeded; cl, the cloudinary module;
\* cfg_raises, whether reading its configuration raised
health(q_ok, cl, cfg_raises) ==
    [db |-> IF q_ok THEN "ok" ELSE "error",
     cloudinary_configured |-> ~cfg_raises /\ cl = "set",
     status |-> IF q_ok THEN 200 ELSE 503]

\* the handler the request is routed to and its status: health; a page
\* that queries the database (500 from the error handler when a query
\* fails); 404 when no route matched
handler(endpoint, q_ok, cl, cfg_raises) ==
    IF endpoint = <<"main.", "health">> THEN health(q_ok, cl, cfg_raises)
    ELSE [db |-> IF q_ok THEN "ok" ELSE "error",
          cloudinary_configured |-> FALSE,
          status |-> IF endpoint = << >> THEN 404
                     ELSE IF q_ok THEN 200 ELSE 500]

NoVisit == [endpoint |-> << >>, hook |-> "-", stat |-> 0, total |-> 0]

NoServed ==
    [browser |-> "-", endpoint |-> << >>, hook |-> "-", ran |-> FALSE,
     q_ok |-> FALSE, cfg_raises |-> FALSE, db |-> "-",
     cloudinary_configured |-> FALSE, status |-> 0]

\* a request arrives: the hook up to and including VisitorStat.query.first()
\* (line 97); found tells whether the query returned or raised
visit_begin(b) ==
    /\ vpc[b] = "idle"
    /\ \E endpoint \in Endpoints, found \in BOOLEAN, i \in first(visitor_stats) :
         LET v == [NoVisit EXCEPT !.endpoint = endpoint]
         IN  IF ~should_count(session[b], endpoint)
             THEN /\ visit' = [visit EXCEPT ![b] = [v EXCEPT !.hook = "skipped"]]
                  /\ vpc' = [vpc EXCEPT ![b] = "handler"]
             ELSE IF ~found
             THEN /\ visit' = [visit EXCEPT ![b] = [v EXCEPT !.hook = "failed"]]
                  /\ vpc' = [vpc EXCEPT ![b] = after_count_failure]
             ELSE /\ visit' = [visit EXCEPT ![b] =
                                 [v EXCEPT !.hook = "counting",
                                           !.stat = i,
                                           !.total = IF i = 0 THEN 0
                                                     ELSE visitor_stats[i].total_count]]
                  /\ vpc' = [vpc EXCEPT ![b] = "counting"]
    /\ UNCHANGED <<visitor_stats, served, session>>
    /\ UNCHANGED <<admin_config, catalog, resp>>
    /\ UNCHANGED <<storage_vars, pdf_vars, flow_vars, name_vars, boot_vars, visits_vars, csrf_vars>>

\* lines 98-108: the increment and db.session.commit(); committed tells
\* whether the commit returned or raised
visit_count(b) ==
    /\ vpc[b] = "counting"
    /\ \E committed \in BOOLEAN :
         IF committed
         THEN /\ visitor_stats' = count_commit(visitor_stats, visit[b])
              /\ session' = [session EXCEPT ![b] = @ \cup {"visitor_counted"}]
              /\ visit' = [visit EXCEPT ![b].hook = "counted"]
              /\ vpc' = [vpc EXCEPT ![b] = "handler"]
         ELSE /\ UNCHANGED <<visitor_stats, session>>
              /\ visit' = [visit EXCEPT ![b].hook = "failed"]
              /\ vpc' = [vpc EXCEPT ![b] = after_count_failure]
    /\ UNCHANGED served
    /\ UNCHANGED <<admin_config, catalog, resp>>
    /\ UNCHANGED <<storage_vars, pdf_vars, flow_vars, name_vars, boot_vars, visits_vars, csrf_vars>>

\* the handler the request was routed to, and the response; a request
\* whose hook raised is answered 500 without its handler
visit_serve(b) ==
    /\ vpc[b] \in {"handler", "error"}
    /\ \E q_ok \in BOOLEAN, cfg_raises \in BOOLEAN :
         LET h == handler(visit[b].endpoint, q_ok, cloudinary, cfg_raises)
             answer == [NoServed EXCEPT !.browser = b,
                                        !.endpoint = visit[b].endpoint,
                                        !.hook = visit[b].hook]
         IN  IF vpc[b] = "handler"
             THEN served' = [answer EXCEPT
                                !.ran = TRUE, !.q_ok = q_ok,
                                !.cfg_raises = cfg_raises, !.db = h.db,
                                !.cloudinary_configured = h.cloudinary_configured,
                                !.status = h.status]
             ELSE served' = [answer EXCEPT !.status = 500]
    /\ vpc' = [vpc EXCEPT ![b] = "idle"]
    /\ visit' = [visit EXCEPT ![b] = NoVisit]
    /\ UNCHANGED <<visitor_stats, session>>
    /\ UNCHANGED <<admin_config, catalog, resp>>
    /\ UNCHANGED <<storage_vars, pdf_vars, flow_vars, name_vars, boot_vars, visits_vars, csrf_vars>>

\* sessions that may end while the site is watched
MaxSessions == 1

\* The browser's session is over (the session cookie is not permanent: it
\* goes when the browser is closed); the next request of the browser comes
\* without 'visitor_counted' and opens a new session.
new_session(b) ==
    /\ vpc[b] = "idle"
    /\ "visitor_counted" \in session[b]
    /\ ended < MaxSessions
    /\ session' = [session EXCEPT ![b] = {}]
    /\ ended' = ended + 1
    /\ UNCHANGED <<visitor_stats, vpc, visit, served>>
    /\ UNCHANGED <<admin_config, catalog, resp>>
    /\ UNCHANGED <<storage_vars, pdf_vars, flow_vars, name_vars, boot_vars, csrf_vars>>

\* ==================================================== sanitize_filename ==

\* the longest of the short names given to sanitize_filename
MaxName == 3

\* A name, character by character. The characters, as far as the function
\* tells them apart: a letter, the dot, the two path separators (both in
\* the class of line 50), the space.
Chars == {"a", ".", "/", "\\", " "}

ShortNames(n) == UNION {[1..k -> Chars] : k \in 0..n}

Pad(n) == [i \in 1..n |-> "a"]

\* the names: every short one, and long ones (longer than the limit of
\* line 55) made of a run of letters, a character or none, another run of
\* letters, and a short ending
Names ==
    ShortNames(MaxName)
    \cup {Pad(n) \o s \o Pad(6) \o t :
            n \in {249, 250}, s \in ShortNames(1), t \in ShortNames(2)}

\* len(filename) > 255; name[:250]
MaxFilenameLength == 255
KeptLength == 250

\* re.sub(r'[<>:"/\\|?*]', '', filename)
remove_dangerous(s) == SelectSeq(s, LAMBDA c : c \notin {"/", "\\"})

\* where the run of dots that holds position i begins
run_start(s, i) ==
    CHOOSE j \in 1..i :
        /\ \A k \in j..i : s[k] = "."
        /\ j = 1 \/ s[j - 1] # "."

\* position i lies in a match of r'\.\.': the matches are found from the
\* left and do not overlap, so in a run of dots one begins at every even
\* offset that has a dot after it
in_dotdot(s, i) ==
    /\ s[i] = "."
    /\ LET offset == i - run_start(s, i)
       IN  \/ offset % 2 = 1
           \/ i < Len(s) /\ s[i + 1] = "."

\* re.sub(r'\.\.', '', filename)
remove_dotdot(s) ==
    LET marked == [i \in 1..Len(s) |-> <<s[i], in_dotdot(s, i)>>]
        kept == SelectSeq(marked, LAMBDA m : ~m[2])
    IN  [i \in 1..Len(kept) |-> kept[i][1]]

\* filename.strip('. ')
RECURSIVE strip(_)
strip(s) ==
    IF s = << >> THEN s
    ELSE IF s[1] \in {".", " "} THEN strip(Tail(s))
    ELSE IF s[Len(s)] \in {".", " "} THEN strip(SubSeq(s, 1, Len(s) - 1))
    ELSE s

\* lines 55-57: filename.rsplit('.', 1), name[:250] + '.' + ext
truncate(s) ==
    IF Len(s) > MaxFilenameLength
    THEN IF \E i \in 1..Len(s) : s[i] = "."
         THEN LET dot == CHOOSE i \in 1..Len(s) :
                             /\ s[i] = "."
                             /\ \A j \in (i + 1)..Len(s) : s[j] # "."
                  name == SubSeq(s, 1, dot - 1)
                  ext == SubSeq(s, dot + 1, Len(s))
                  cut == SubSeq(name, 1, IF Len(name) < KeptLength
                                         THEN Len(name) ELSE KeptLength)
              IN  cut \o (IF ext # << >> THEN <<".">> \o ext ELSE << >>)
         ELSE SubSeq(s, 1, KeptLength)
    ELSE s

\* SecurityManager.sanitize_filename
sanitize_filename(s) == truncate(strip(remove_dotdot(remove_dangerous(s))))

NoResult == [called |-> FALSE, result |-> << >>]

\* one call SecurityManager.sanitize_filename(raw_name)
sanitize_filename_call ==
    /\ ~sanitized.called
    /\ sanitized' = [called |-> TRUE, result |-> sanitize_filename(raw_name)]
    /\ UNCHANGED raw_name
    /\ UNCHANGED <<storage_vars, pdf_vars, flow_vars, admin_vars, site_vars, boot_vars, visits_vars, csrf_vars>>

\* ================================================ config, create_app ==

\* os.environ.get(key): the variable is missing, holds the empty string,
\* or holds a value
DatabaseUrls == {"unset", "", "postgresql://db"}
SecretKeys == {"unset", "s3cr3t"}
FlaskConfigs == {"unset", "", "development", "production", "default"}

\* the module the process is started from
EntryPoints == {"app.py", "run.py", "api/index.py"}

Environs ==
    [DATABASE_URL : DatabaseUrls,
     SECRET_KEY   : SecretKeys,
     FLASK_CONFIG : FlaskConfigs,
     entry        : EntryPoints]

\* Python's truth of os.environ.get(key): None and '' are both false
truthy(value) == value \notin {"unset", ""}

\* os.environ.get(key) or default
get_or(value, default) == IF truthy(value) THEN value ELSE default

\* the body of class Config, as far as the properties look
Config(env) ==
    [SECRET_KEY |->
        get_or(env.SECRET_KEY, "dev-secret-key-change-in-production"),
     SQLALCHEMY_DATABASE_URI |->
        get_or(env.DATABASE_URL, "sqlite:///tower_docs.db")]

\* class DevelopmentConfig(Config): inherits every attribute
DevelopmentConfig(env) == Config(env)

\* the body of class ProductionConfig raises when DATABASE_URL is not set
ProductionConfig_raises(env) == ~truthy(env.DATABASE_URL)

\* class ProductionConfig(Config), when its body has run to its end:
\* the attribute is os.environ.get('DATABASE_URL') itself
ProductionConfig(env) ==
    [Config(env) EXCEPT !.SQLALCHEMY_DATABASE_URI = env.DATABASE_URL]

\* the keys of the dict config
ConfigNames == {"development", "production", "default"}

\* config[config_name]
config_class(name, env) ==
    IF name = "production" THEN ProductionConfig(env)
                           ELSE DevelopmentConfig(env)

\* the argument the entry point gives create_app: app.py and run.py take
\* os.getenv('FLASK_CONFIG') or 'default', api/index.py takes
\* os.getenv('FLASK_CONFIG', 'production')
config_name(env) ==
    IF env.entry = "api/index.py"
    THEN IF env.FLASK_CONFIG = "unset" THEN "production"
                                       ELSE env.FLASK_CONFIG
    ELSE get_or(env.FLASK_CONFIG, "default")

NotStarted ==
    [pc |-> "start", error |-> "-", config_name |-> "-",
     SQLALCHEMY_DATABASE_URI |-> "-"]

\* `from config import config` (app/__init__.py line 5): the module
\* config.py runs from its first line to its last, every class body
\* included, whichever entry of the dict is asked for later
import_config ==
    /\ boot.pc = "start"
    /\ boot' = IF ProductionConfig_raises(environ)
               THEN [boot EXCEPT !.pc = "failed", !.error = "RuntimeError"]
               ELSE [boot EXCEPT !.pc = "imported"]
    /\ UNCHANGED environ
    /\ UNCHANGED <<storage_vars, pdf_vars, flow_vars, admin_vars, site_vars, name_vars, visits_vars, csrf_vars>>

\* create_app(config_name): config[config_name] is looked up (KeyError for a
\* name that is no key), its attributes are copied into app.config
create_app ==
    /\ boot.pc = "imported"
    /\ LET name == config_name(environ)
       IN  boot' =
             IF name \notin ConfigNames
             THEN [boot EXCEPT !.pc = "failed", !.error = "KeyError",
                               !.config_name = name]
             ELSE [boot EXCEPT
                     !.pc = "running",
                     !.config_name = name,
                     !.SQLALCHEMY_DATABASE_URI =
                         config_class(name, environ).SQLALCHEMY_DATABASE_URI]
    /\ UNCHANGED environ
    /\ UNCHANGED <<storage_vars, pdf_vars, flow_vars, admin_vars, site_vars, name_vars, visits_vars, csrf_vars>>

\* ============================== csrf_protect, verify_csrf_token ==

\* SecurityManager.generate_secure_token(): secrets.token_urlsafe(32), one
\* of the strings it can produce
Tokens == {"t1", "t2", "t3"}

\* what a caller may hand to verify_csrf_token: a string, or None when the
\* form carried no token
Submitted == Tokens \cup {"None"}

\* session.get('csrf_token'): None when the key is missing
session_get_csrf_token(s, value) ==
    IF "csrf_token" \in s THEN value ELSE "None"

\* token == session.get('csrf_token'); Python's None == None is True
verify(token, s, value) == token = session_get_csrf_token(s, value)

NoCsrf ==
    [op |-> "-", browser |-> "-", issued |-> FALSE, stored |-> "None",
     token |-> "None", result |-> "None"]

\* csrf_protect(): a token is generated and stored when the session holds
\* none; the stored token is returned
csrf_protect(b) ==
    /\ \E fresh \in Tokens :
         LET had == "csrf_token" \in session[b]
             value == IF had THEN csrf_token[b] ELSE fresh
         IN  /\ csrf_token' = [csrf_token EXCEPT ![b] = value]
             /\ session' = [session EXCEPT ![b] = @ \cup {"csrf_token"}]
             /\ csrf' = [NoCsrf EXCEPT
                           !.op = "csrf_protect", !.browser = b,
                           !.issued = had,
                           !.stored = session_get_csrf_token(session[b],
                                                             csrf_token[b]),
                           !.result = value]
    /\ UNCHANGED <<admin_config, catalog, resp>>
    /\ UNCHANGED <<storage_vars, pdf_vars, flow_vars, site_vars, name_vars, boot_vars, visits_vars>>

\* verify_csrf_token(token)
verify_csrf_token(b) ==
    /\ \E token \in Submitted :
         csrf' = [NoCsrf EXCEPT
                    !.op = "verify_csrf_token", !.browser = b,
                    !.issued = "csrf_token" \in session[b],
                    !.stored = session_get_csrf_token(session[b],
                                                      csrf_token[b]),
                    !.token = token,
                    !.result = verify(token, session[b], csrf_token[b])]
    /\ UNCHANGED csrf_token
    /\ UNCHANGED <<session, admin_config, catalog, resp>>
    /\ UNCHANGED <<storage_vars, pdf_vars, flow_vars, site_vars, name_vars, boot_vars, visits_vars>>

\* ======================================================= specifications ==

IdleStorage ==
    /\ call = NoCall
    /\ since_init = "-"

IdlePdf ==
    /\ stream = NoStream
    /\ info = NoInfo

IdleFlow ==
    /\ docs = << >>
    /\ clock = 0
    /\ pc = [r \in Reqs |-> "idle"]
    /\ req = [r \in Reqs |-> NoReq]
    /\ last = NoLast
    /\ objects = {}

IdleAdmin ==
    /\ session = [b \in Browsers |-> {}]
    /\ admin_config = [ADMIN_USERNAME |-> "None", ADMIN_PASSWORD |-> "None"]
    /\ catalog = EmptyCatalog
    /\ resp = NoResp

IdleSite ==
    /\ visitor_stats = << >>
    /\ vpc = [b \in Browsers |-> "idle"]
    /\ visit = [b \in Browsers |-> NoVisit]
    /\ served = NoServed

IdleName ==
    /\ raw_name = << >>
    /\ sanitized = NoResult

\* the process that serves the requests has started with a database URL
\* in its environment
Started ==
    [DATABASE_URL |-> "postgresql://db", SECRET_KEY |-> "s3cr3t",
     FLASK_CONFIG |-> "production", entry |-> "api/index.py"]

IdleBoot ==
    /\ environ = Started
    /\ boot = [pc |-> "running", error |-> "-", config_name |-> "production",
               SQLALCHEMY_DATABASE_URI |-> "postgresql://db"]

IdleVisits == ended = 0

IdleCsrf ==
    /\ csrf_token = [b \in Browsers |-> "None"]
    /\ csrf = NoCsrf

\* storage = CloudStorage(): no app, no client; app.config holds whatever
\* the environment gave; the cloudinary module is absent (the import
\* failed) or not yet configured by init_app
InitStorage ==
    /\ config \in Configs
    /\ cloudinary \in {"None", "unset"}
    /\ s3_client = FALSE
    /\ app = FALSE
    /\ IdleStorage
    /\ IdlePdf
    /\ IdleFlow
    /\ IdleAdmin
    /\ IdleSite
    /\ IdleName
    /\ IdleBoot
    /\ IdleVisits
    /\ IdleCsrf

NextStorage == ConfigChange \/ init_app \/ upload_file_call

SpecStorage == InitStorage /\ [][NextStorage]_vars

InitPdf ==
    /\ config = [k \in ConfigKeys |-> FALSE]
    /\ cloudinary = "None"
    /\ s3_client = FALSE
    /\ app = FALSE
    /\ IdleStorage
    /\ stream \in Streams
    /\ info = NoInfo
    /\ IdleFlow
    /\ IdleAdmin
    /\ IdleSite
    /\ IdleName
    /\ IdleBoot
    /\ IdleVisits
    /\ IdleCsrf

NextPdf == get_pdf_info_call

SpecPdf == InitPdf /\ [][NextPdf]_vars

\* the deployment the requests run in, as create_app leaves it: the managed
\* service and object storage both configured
Deployed ==
    [k \in ConfigKeys |->
        k \in {"CLOUDINARY_URL", "AWS_ACCESS_KEY_ID", "AWS_SECRET_ACCESS_KEY"}]

\* the rows the uploads refer to: one category and its two variants
\* (TowerVariant.query.get_or_404 finds them); the rows of tower_documents
\* are those of docs
Seeded ==
    [EmptyCatalog EXCEPT
        !.categories = {1},
        !.variants = {[id |-> v, category_id |-> 1] : v \in Variants}]

Init ==
    /\ config = Deployed
    /\ cloudinary = init_cloudinary("unset", config)
    /\ s3_client = init_s3_client(FALSE, config)
    /\ app = TRUE
    /\ IdleStorage
    /\ IdlePdf
    /\ IdleFlow
    /\ session = [b \in Browsers |-> {}]
    /\ admin_config = [ADMIN_USERNAME |-> "None", ADMIN_PASSWORD |-> "None"]
    /\ catalog = Seeded
    /\ resp = NoResp
    /\ IdleSite
    /\ IdleName
    /\ IdleBoot
    /\ IdleVisits
    /\ IdleCsrf

Next ==
    \E r \in Reqs :
        \/ upload_begin(r, FlowNames, Versions)
        \/ upload_store(r, FlowFiles, FlowExternals)
        \/ upload_finish(r)

Spec == Init /\ [][Next]_vars

\* the admin blueprint: the configured credentials are whatever the
\* environment gave, every session is empty, the tables are empty
InitAdmin ==
    /\ config = Deployed
    /\ cloudinary = init_cloudinary("unset", config)
    /\ s3_client = init_s3_client(FALSE, config)
    /\ app = TRUE
    /\ IdleStorage
    /\ IdlePdf
    /\ IdleFlow
    /\ session = [b \in Browsers |-> {}]
    /\ admin_config \in AdminConfigs
    /\ catalog = EmptyCatalog
    /\ resp = NoResp
    /\ IdleSite
    /\ IdleName
    /\ IdleBoot
    /\ IdleVisits
    /\ IdleCsrf

NextAdmin == \E b \in Browsers : login(b) \/ logout(b) \/ admin_request(b)

SpecAdmin == InitAdmin /\ [][NextAdmin]_vars

\* the public site: the cloudinary module is absent, unconfigured or
\* configured; no session has visited, the VisitorStat table is empty
InitSite ==
    /\ config = Deployed
    /\ cloudinary \in {"None", "unset", "set"}
    /\ s3_client = init_s3_client(FALSE, config)
    /\ app = TRUE
    /\ IdleStorage
    /\ IdlePdf
    /\ IdleFlow
    /\ IdleAdmin
    /\ IdleSite
    /\ IdleName
    /\ IdleBoot
    /\ IdleVisits
    /\ IdleCsrf

\* the requests of different sessions are handled at the same time, those
\* of one session one after the other
NextSite ==
    \E b \in Browsers : visit_begin(b) \/ visit_count(b) \/ visit_serve(b)

SpecSite == InitSite /\ [][NextSite]_vars

\* the public site over several sessions of each browser
InitVisits ==
    /\ config = Deployed
    /\ cloudinary = init_cloudinary("unset", config)
    /\ s3_client = init_s3_client(FALSE, config)
    /\ app = TRUE
    /\ IdleStorage
    /\ IdlePdf
    /\ IdleFlow
    /\ IdleAdmin
    /\ IdleSite
    /\ IdleName
    /\ IdleBoot
    /\ IdleVisits
    /\ IdleCsrf

NextVisits ==
    \E b \in Browsers :
        visit_begin(b) \/ visit_count(b) \/ visit_serve(b) \/ new_session(b)

SpecVisits == InitVisits /\ [][NextVisits]_vars

\* the sessions of the browsers, none holding a token yet
InitCsrf ==
    /\ config = Deployed
    /\ cloudinary = init_cloudinary("unset", config)
    /\ s3_client = init_s3_client(FALSE, config)
    /\ app = TRUE
    /\ IdleStorage
    /\ IdlePdf
    /\ IdleFlow
    /\ IdleAdmin
    /\ IdleSite
    /\ IdleName
    /\ IdleBoot
    /\ IdleVisits
    /\ IdleCsrf

NextCsrf == \E b \in Browsers : csrf_protect(b) \/ verify_csrf_token(b)

SpecCsrf == InitCsrf /\ [][NextCsrf]_vars

InitName ==
    /\ config = [k \in ConfigKeys |-> FALSE]
    /\ cloudinary = "None"
    /\ s3_client = FALSE
    /\ app = FALSE
    /\ IdleStorage
    /\ IdlePdf
    /\ IdleFlow
    /\ IdleAdmin
    /\ IdleSite
    /\ raw_name \in Names
    /\ sanitized = NoResult
    /\ IdleBoot
    /\ IdleVisits
    /\ IdleCsrf

NextName == sanitize_filename_call

SpecName == InitName /\ [][NextName]_vars

\* a process is started: the environment is whatever the host gave, the
\* entry point is one of the three; nothing has been imported yet
InitBoot ==
    /\ config = [k \in ConfigKeys |-> FALSE]
    /\ cloudinary = "None"
    /\ s3_client = FALSE
    /\ app = FALSE
    /\ IdleStorage
    /\ IdlePdf
    /\ IdleFlow
    /\ IdleAdmin
    /\ IdleSite
    /\ IdleName
    /\ environ \in Environs
    /\ boot = NotStarted
    /\ IdleVisits
    /\ IdleCsrf

NextBoot == import_config \/ create_app

SpecBoot == InitBoot /\ [][NextBoot]_vars

\* the deployments of the storage: the managed service and object storage
\* both configured, object storage alone, neither (local disk)
Deployments ==
    {Deployed,
     [k \in ConfigKeys |-> k \in {"AWS_ACCESS_KEY_ID", "AWS_SECRET_ACCESS_KEY"}],
     [k \in ConfigKeys |-> FALSE]}

\* the uploads of one administrator on each deployment of the storage
InitStore ==
    /\ config \in Deployments
    /\ cloudinary = init_cloudinary("unset", config)
    /\ s3_client = init_s3_client(FALSE, config)
    /\ app = TRUE
    /\ IdleStorage
    /\ IdlePdf
    /\ IdleFlow
    /\ IdleAdmin
    /\ IdleSite
    /\ IdleName
    /\ IdleBoot
    /\ IdleVisits
    /\ IdleCsrf

NextStore ==
    \/ upload_begin("r1", FlowNames, StoreVersions)
    \/ upload_store("r1", StoreFiles, StoreExternals)
    \/ upload_finish("r1")

SpecStore == InitStore /\ [][NextStore]_vars

\* the administrator's uploads one after the other, with every kind of
\* file and file name
NextUpload ==
    \/ upload_begin("r1", UploadNames, Versions)
    \/ upload_reject("r1", UploadNames)
    \/ upload_store("r1", UploadFiles, UploadExternals)
    \/ upload_finish("r1")

SpecUpload == Init /\ [][NextUpload]_vars

\* ============================================================ properties ==

Tried(b) == \E i \in 1..Len(call.tried) : call.tried[i] = b

\* ---- upload_document (Spec)

\* C1: after an upload flow for a Variant in which upload_file returned a
\* URL, with no other upload for that Variant running at the same time,
\* exactly one Document of the Variant is active; it is the newly inserted
\* row, the one variant_detail returns, and no Document of the Variant has a
\* later upload timestamp; whatever rows, active or not, the Variant had.
C1_OneActiveAfterSuccess ==
    (last.outcome = "ok" /\ last.alone) =>
        /\ last.doc = Len(docs)
        /\ docs[last.doc].variant_id = last.variant
        /\ ActiveIds(docs, last.variant) = {last.doc}
        /\ variant_detail(docs, last.variant) = {last.doc}
        /\ \A d \in DocsOf(docs, last.variant) :
              docs[d].upload_timestamp <= docs[last.doc].upload_timestamp

\* a flow running alone has succeeded for a Variant that had two active
\* Documents, and left one
C1_Witness ==
    /\ last.outcome = "ok"
    /\ last.alone
    /\ Cardinality(last.before) >= 2
    /\ Cardinality(ActiveIds(docs, last.variant)) = 1

\* C2, as stated: after an upload flow in which upload_file returned a
\* failure result, the Variant has zero active Documents once the request
\* has finished.
C2_ZeroActiveAfterFailure ==
    last.outcome = "fail" => ActiveIds(docs, last.variant) = {}

\* C2, amended: after an upload flow in which upload_file returned a failure
\* result, the active Documents of the Variant are those the database held
\* before: the deactivation is never committed, so the Document that was
\* active before the request (if any) is still active.
C2_ActiveKeptAfterFailure ==
    /\ last.outcome = "fail" => ActiveIds(docs, last.variant) = last.before
    /\ (last.outcome = "fail" /\ last.alone) =>
           ActiveIds(docs, last.variant) = last.at_begin

\* a failed flow has finished for a Variant that had an active Document,
\* and the Document is still active
C2_Witness ==
    /\ last.outcome = "fail"
    /\ last.alone
    /\ last.at_begin # {}
    /\ ActiveIds(docs, last.variant) = last.at_begin

\* C3: when upload_file returns a failure result no Document row is
\* created: every step of a request other than the commit after a returned
\* URL leaves the rows of every Variant as they were.
C3_NoRowOnFailure ==
    [][\A r \in Reqs :
          (pc'[r] # pc[r] /\ ~(pc[r] = "uploaded" /\ req[r].url.kind = "url"))
              => docs' = docs]_vars

\* a failed flow has finished on a table that holds rows
C3_Witness ==
    /\ last.outcome = "fail"
    /\ Len(docs) >= 1

\* C8: two upload flows for one Variant that run concurrently and both
\* succeed can both leave a Document active. A committing flow deactivates
\* the rows its UPDATE saw and no others: the Documents of its Variant that
\* are active afterwards are the new one and those that overlapping flows
\* committed after the UPDATE.
C8_RaceLeavesBothActive ==
    last.outcome = "ok" =>
        ActiveIds(docs, last.variant)
            = {last.doc} \cup {d \in last.before : d > last.seen}

\* two flows for one Variant overlapped, both committed, and the Variant
\* has two active Documents
C8_Witness ==
    /\ last.outcome = "ok"
    /\ ~last.alone
    /\ Cardinality(ActiveIds(docs, last.variant)) >= 2

\* the window of C9: both handlers are inside upload flows for Variant v,
\* past their UPDATE, and v had an active Document when each began
InWindow(v) ==
    \A r \in Reqs :
        /\ pc[r] # "idle"
        /\ req[r].variant = v
        /\ req[r].at_begin # {}

\* C9, as stated: while two concurrent upload flows for one Variant are in
\* progress, other readers find the Variant, which had an active Document,
\* without one.
C9_UndocumentedInWindow ==
    \A v \in Variants : InWindow(v) => variant_detail(docs, v) = {}

\* C9, amended: the deactivation is not visible to other readers before the
\* commit that also inserts the new Document: a Variant that has an active
\* Document never comes to have none, whatever upload flows are in progress.
C9_NeverUndocumented ==
    [][\A v \in Variants :
          ActiveIds(docs, v) # {} => ActiveIds(docs', v) # {}]_vars

\* two flows for one Variant are past their UPDATE and a reader still gets
\* the Document that was active
C9_Witness ==
    \E v \in Variants : InWindow(v) /\ variant_detail(docs, v) # {}

\* C24: an upload flow for Variant V, whether it succeeds or fails, leaves
\* every Document of every other Variant as it is (flag, URL, version,
\* metadata), creates rows for V only, and leaves the Category and Variant
\* rows as they are; at every step of the flow.
C24_OtherVariantsUntouched ==
    [][\A r \in Reqs :
          pc'[r] # pc[r] =>
              LET v == IF pc[r] = "idle" THEN req'[r].variant
                                         ELSE req[r].variant
              IN  /\ \A d \in Ids(docs) :
                        docs[d].variant_id # v =>
                            d \in Ids(docs') /\ docs'[d] = docs[d]
                  /\ \A d \in Ids(docs') \ Ids(docs) :
                        docs'[d].variant_id = v
                  /\ catalog'.categories = catalog.categories
                  /\ catalog'.variants = catalog.variants]_vars

\* a flow has succeeded for a Variant that had an active Document, while
\* another Variant has an active Document of its own
C24_Witness ==
    /\ last.outcome = "ok"
    /\ last.before # {}
    /\ catalog.variants # {}
    /\ \E d \in Ids(docs) :
          /\ d < last.doc
          /\ docs[d].variant_id # last.variant
          /\ docs[d].is_active

\* ---- upload_document, one request at a time (SpecUpload)

\* C11: when the uploaded file cannot be parsed (get_pdf_info degrades to
\* zero metadata) and upload_file returns a URL, the flow still ends in
\* success: a new row of the Variant is inserted, active, pointing at that
\* URL, with page_count = 0 and file_size = 0.
C11_ZeroMetadataStillInserted ==
    (~IsPdf(last.file.data) /\ last.url.kind = "url") =>
        /\ last.outcome = "ok"
        /\ last.doc \in Ids(docs)
        /\ last.doc = Len(docs)
        /\ docs[last.doc].variant_id = last.variant
        /\ docs[last.doc].is_active
        /\ docs[last.doc].pdf_url = last.url
        /\ docs[last.doc].page_count = 0
        /\ docs[last.doc].file_size = 0

C11_Witness ==
    /\ last.outcome = "ok"
    /\ ~IsPdf(last.file.data)
    /\ ~last.file.has_getvalue
    /\ last.url.backend = "s3"
    /\ docs[last.doc].is_active
    /\ docs[last.doc].page_count = 0
    /\ docs[last.doc].file_size = 0

\* the part of the name after its last dot is pdf, in any case
PdfExtension(name) ==
    /\ Len(name) >= 2
    /\ name[Len(name) - 1] = "."
    /\ name[Len(name)] \in {"pdf", "PDF", "Pdf"}

\* C12: an upload whose file name does not have the extension pdf (the part
\* after the last dot, compared case-insensitively) is rejected: it is
\* never the name of a request that has gone past the check, and the step
\* that rejects it leaves the table as it was (nothing deactivated, nothing
\* inserted), starts no transaction and does not reach the uploader.
C12_RejectedPersistsNothing ==
    /\ [](\A r \in Reqs : pc[r] # "idle" => PdfExtension(req[r].name))
    /\ [](last.outcome \in {"ok", "fail", "raise"} => PdfExtension(last.name))
    /\ [](last.outcome = "invalid" => ~PdfExtension(last.name))
    /\ [][(last' # last /\ last'.outcome = "invalid") =>
              /\ UNCHANGED <<docs, clock, pc, req>>
              /\ UNCHANGED storage_vars
              /\ last'.url = NoUrl
              /\ last'.doc = 0]_vars

C12_Witness ==
    /\ last.outcome = "invalid"
    /\ last.name = <<"spec", ".", "pdf", ".", "txt">>
    /\ last.at_begin # {}
    /\ ActiveIds(docs, last.variant) = last.at_begin

\* ---- the admin blueprint (SpecAdmin)

Guarded(route) == route \notin {"-", "login", "logout"}

HoldsFlag(b) == "admin_logged_in" \in session[b]

NoOrphans(cat) ==
    /\ \A v \in cat.variants : v.category_id \in cat.categories
    /\ \A d \in cat.documents : d.variant_id \in VariantIds(cat)

\* C15: every Variant belongs to an existing Category and every Document
\* to an existing Variant, whatever requests the administrator has made;
\* a step that removes a Category leaves none of its Variants and none of
\* their Documents; a step that removes a Variant leaves none of its
\* Documents; delete_category answers with its redirect for every existing
\* Category, one that has no Variants included.
C15_NoOrphans ==
    /\ [](NoOrphans(catalog))
    /\ [][\A c \in catalog.categories \ catalog'.categories :
              /\ variants_of(catalog', c) = {}
              /\ \A v \in variants_of(catalog, c) :
                    /\ v.id \notin VariantIds(catalog')
                    /\ documents_of(catalog', v.id) = {}]_vars
    /\ [][\A v \in VariantIds(catalog) \ VariantIds(catalog') :
              documents_of(catalog', v) = {}]_vars
    /\ [][(resp' # resp /\ resp'.ran /\ resp'.route = "delete_category") =>
              IF resp'.kind = "redirect"
              THEN Cardinality(catalog.categories \ catalog'.categories) = 1
              ELSE resp'.kind = "404" /\ UNCHANGED catalog]_vars

\* a category with two variants and their two documents has been deleted,
\* and another category is left
C15_Witness ==
    /\ resp.route = "delete_category"
    /\ resp.kind = "redirect"
    /\ resp.removed = [variants |-> 2, documents |-> 2]
    /\ catalog.categories # {}
    /\ catalog.variants = {}
    /\ catalog.documents = {}

\* the site a browser is at after following a Location header: another
\* host when the URL is absolute or scheme-relative
Host(url) ==
    IF Len(url) >= 2 /\ url[1] \in {"http://", "https://", "//"}
    THEN url[2]
    ELSE "self"

\* C20: for every value of next, the response to a successful login does
\* not redirect the browser to a host other than the site itself.
C20_LoginRedirectStaysOnSite ==
    (resp.route = "login" /\ resp.kind = "redirect") =>
        Host(resp.location) = "self"

\* ---- the public site (SpecSite)

HealthEndpoint == <<"main.", "health">>

TotalOf(table) == IF table = << >> THEN 0 ELSE table[1].total_count

Counted(b) == "visitor_counted" \in session[b]

\* C17: the total never shrinks and grows by 1 at most in a step; the
\* table changes only in the counting
\* step of a request to a public endpoint by a session not yet counted,
\* which marks the session; the step that marks a session grows the total
\* by exactly 1; a marked session stays marked and its requests leave the
\* table as it is; requests to admin and static endpoints never reach the
\* counting step; the row, when missing, is created and holds total 1.
C17_OncePerSession ==
    /\ [][LET t == TotalOf(visitor_stats)
              u == TotalOf(visitor_stats')
          IN  /\ u \in {t, t + 1}
              /\ visitor_stats' # visitor_stats =>
                    /\ u = t + 1
                    /\ \E b \in Browsers :
                          /\ vpc[b] = "counting"
                          /\ ~Counted(b)
                          /\ "visitor_counted" \in session'[b]]_vars
    /\ [][\A b \in Browsers :
              ("visitor_counted" \in session'[b] /\ ~Counted(b)) =>
                  TotalOf(visitor_stats') = TotalOf(visitor_stats) + 1]_vars
    /\ [][\A b \in Browsers :
              Counted(b) =>
                  /\ "visitor_counted" \in session'[b]
                  /\ vpc'[b] # vpc[b] => UNCHANGED visitor_stats]_vars
    /\ [](\A b \in Browsers :
              vpc[b] = "counting" =>
                  ~Counted(b) /\ ~skipped(visit[b].endpoint))
    /\ [](served.hook \in {"counted", "failed"} => ~skipped(served.endpoint))
    /\ [][(visitor_stats = << >> /\ visitor_stats' # << >>) =>
              visitor_stats' = <<[total_count |-> 1]>>]_vars

C19_AtMostOneRow == Len(visitor_stats) <= 1

\* ---- sanitize_filename (SpecName)

HasSeparator(s) == \E i \in 1..Len(s) : s[i] \in {"/", "\\"}

HasDotDot(s) == \E i \in 1..(Len(s) - 1) : s[i] = "." /\ s[i + 1] = "."

\* C16: for every input name, the names longer than the length limit
\* included, the result of sanitize_filename contains no path separator
\* (/ or \) and no two dots in a row.
C16_NoSeparatorNoTraversal ==
    sanitized.called =>
        ~HasSeparator(sanitized.result) /\ ~HasDotDot(sanitized.result)

\* ---- upload_file (SpecStorage)

\* C4, as stated: when the managed service is configured and its upload
\* attempt fails, upload_file returns the failure result: no attempt on
\* object storage, nothing written to the local disk.
C4_FailedManagedReturnsFailure ==
    (call.made /\ cloudinary = "set" /\ call.ext.cl = "fail") =>
        /\ call.result = NoUrl
        /\ ~Tried("s3")
        /\ ~Tried("local")

\* C4, amended: when the managed service is configured and its upload
\* attempt fails, upload_file goes on to the next backend: object storage
\* when an object-storage client exists, otherwise the local disk, whose
\* path it returns.
C4_FailedManagedFallsThrough ==
    (call.made /\ cloudinary = "set" /\ call.ext.cl = "fail") =>
        /\ Len(call.tried) >= 2
        /\ call.tried[1] = "cloudinary"
        /\ call.tried[2] = (IF s3_client THEN "s3" ELSE "local")
        /\ ~s3_client => call.result = upload_local(call.name)

\* the managed upload failed and the file went to the local disk
C4_Witness ==
    /\ call.made
    /\ cloudinary = "set"
    /\ call.ext.cl = "fail"
    /\ call.tried = <<"cloudinary", "local">>
    /\ call.result.backend = "local"

\* the parts of C5 that hold as stated: the managed service, when
\* configured, is tried first and its URL returned with nothing else
\* touched; without it, an existing object-storage client is used; with
\* neither, the local path is returned
PriorityOrder ==
    /\ cloudinary = "set" => call.tried[1] = "cloudinary"
    /\ (cloudinary = "set" /\ call.ext.cl = "ok") =>
          /\ call.tried = <<"cloudinary">>
          /\ call.result.kind = "url"
          /\ call.result.backend = "cloudinary"
    /\ (cloudinary # "set" /\ s3_client) => call.tried[1] = "s3"
    /\ (cloudinary # "set" /\ ~s3_client) =>
          /\ call.tried = <<"local">>
          /\ call.result = upload_local(call.name)

\* C5, as stated: upload_file picks the backend in a fixed priority order,
\* and only if neither the managed service nor object storage is configured
\* is the file written to the local directory (the NoCredentialsError
\* fallback, which C6 states, set aside).
C5_LocalOnlyIfNeitherConfigured ==
    call.made =>
        /\ PriorityOrder
        /\ Tried("local") =>
              \/ cloudinary # "set" /\ ~s3_client
              \/ Tried("s3") /\ call.ext.s3 = "NoCredentialsError"

\* C5, amended: the same priority order; the file is written to the local
\* directory, and /uploads/<name> returned, exactly when no object-storage
\* client exists and the managed service is not configured or its attempt
\* failed, or when object storage raised NoCredentialsError.
C5_PriorityWithFallbacks ==
    call.made =>
        /\ PriorityOrder
        /\ Tried("local") <=>
              \/ ~s3_client /\ (cloudinary # "set" \/ call.ext.cl = "fail")
              \/ Tried("s3") /\ call.ext.s3 = "NoCredentialsError"
        /\ Tried("local") => call.result = upload_local(call.name)

\* object storage was used because the managed service is not configured
C5_Witness ==
    /\ call.made
    /\ cloudinary # "set"
    /\ s3_client
    /\ call.tried = <<"s3">>
    /\ call.result.backend = "s3"

\* C6: when object storage is the backend in use, NoCredentialsError makes
\* upload_file write the file locally and return the local path; every
\* other object-storage error makes the call fail (None returned for a
\* ClientError, the exception passed on for any other) with no local file
\* written.
C6_ObjectStorageErrors ==
    (call.made /\ Tried("s3")) =>
        /\ call.ext.s3 = "NoCredentialsError" =>
              /\ call.tried[Len(call.tried)] = "local"
              /\ call.result = upload_local(call.name)
        /\ call.ext.s3 \in {"ClientError", "other"} =>
              /\ call.result.kind # "url"
              /\ ~Tried("local")
        /\ call.ext.s3 = "ClientError" => call.result = NoUrl

\* object storage raised NoCredentialsError and the local path came back
C6_Witness ==
    /\ call.made
    /\ Tried("s3")
    /\ call.ext.s3 = "NoCredentialsError"
    /\ call.result.backend = "local"

\* C7, as stated: each upload_file call selects the backend according to
\* the configuration present at the time of the call.
C7_ChoiceFollowsConfig ==
    call.made => call.tried[1] = call.by_config

\* C7, amended: the backend choice rests on what init_app left in the
\* storage object and the cloudinary module: every call after an init_app
\* starts with the same backend, whatever credentials appear in or
\* disappear from the configuration in between.
C7_ChoiceFixedSinceInit ==
    call.made => call.tried[1] = since_init

\* a call started with the backend of the calls before it although the
\* configuration, as it is now, names another
C7_Witness ==
    /\ call.made
    /\ call.tried[1] = since_init
    /\ call.by_config # call.tried[1]

\* ---- get_pdf_info (SpecPdf)

\* C10: get_pdf_info never raises; it reads from the start whatever the
\* read position was; content that does not parse as a PDF (or any other
\* failure) gives page_count = 0 and file_size = 0; on success both values
\* are non-negative.
C10_ZeroOnFailureNonNegative ==
    info.called =>
        /\ ~info.raised
        /\ (info.input.closed \/ ~IsPdf(info.input.data)) => info.info = ZeroInfo
        /\ (~info.input.closed /\ IsPdf(info.input.data)) =>
              info.info.page_count = PageCount(info.input.data)
        /\ info.info.page_count >= 0
        /\ info.info.file_size >= 0

\* ---- config.py, create_app (SpecBoot)

\* C21: only the production configuration requires DATABASE_URL. With
\* DATABASE_URL unset, a process whose entry point asks for 'development'
\* or 'default' starts and runs on the SQLite database; the error about
\* the missing DATABASE_URL is raised only when the configuration asked
\* for is 'production'.
C21_OnlyProductionNeedsDatabaseUrl ==
    /\ boot.error = "RuntimeError" => config_name(environ) = "production"
    /\ (/\ environ.DATABASE_URL = "unset"
        /\ config_name(environ) \in {"development", "default"}
        /\ boot.pc \in {"failed", "running"})
          => /\ boot.pc = "running"
             /\ boot.SQLALCHEMY_DATABASE_URI = "sqlite:///tower_docs.db"

\* ---- what the backends hold (SpecStore)

\* C22: whichever backend ends up storing the file, also one reached after
\* an earlier backend failed, the bytes stored under the URL returned are
\* the complete uploaded content, from offset 0, although get_pdf_info has
\* read the stream to its end before upload_file is called.
C22_StoredBytesAreComplete ==
    [][\A r \in Reqs :
          (pc[r] = "deactivated" /\ pc'[r] = "uploaded"
           /\ req'[r].url.kind = "url")
             => get(objects', req'[r].url) = req'[r].file.data]_vars

\* C23: a later upload never replaces the stored content an earlier
\* Document row points to: the bytes behind the pdf_url of every committed
\* row stay what they were.
C23_StoredContentNeverReplaced ==
    [][\A d \in Ids(docs) :
          get(objects', docs[d].pdf_url) = get(objects, docs[d].pdf_url)]_vars

\* ---- visitors (SpecVisits)

\* the sessions that have had a counted public request
CountedSessions == ended + Cardinality({b \in Browsers : Counted(b)})

\* C25: the visit total equals the number of distinct browser sessions that
\* have had a counted public request, in any interleaving of their
\* requests: no increment is lost. Stated for a table of at most one row
\* (the total shown is that row's), where the rows of C19 play no part.
C25_TotalEqualsSessions ==
    Len(visitor_stats) <= 1 => TotalOf(visitor_stats) = CountedSessions

\* ---- csrf_protect, verify_csrf_token (SpecCsrf)

\* C26: verify_csrf_token accepts a token only if it equals a token that
\* csrf_protect has issued and stored in the same session: csrf_protect
\* returns the stored token on every later call in the session; the token
\* it returned is accepted; in a session where no token has been issued
\* every input is refused, a missing token (None) included.
C26_AcceptsOnlyIssuedToken ==
    /\ (csrf.op = "csrf_protect" /\ csrf.issued) => csrf.result = csrf.stored
    /\ csrf.op = "csrf_protect" =>
          /\ csrf.result \in Tokens
          /\ verify(csrf.result, session[csrf.browser],
                    csrf_token[csrf.browser])
    /\ csrf.op = "verify_csrf_token" =>
          csrf.result = (csrf.issued /\ csrf.token = csrf.stored)

====
